---- MODULE Spec2Model ----
(***************************************************************************)
(* Model of src/main.py: the Xeno-Canto -> S3 mirroring pipeline.          *)
(*                                                                         *)
(* One process runs main() -> fetch_and_process_pages() ->                 *)
(* download_and_upload_recording(); the object store outlives the process, *)
(* so the model lets the command be run again (same query, bucket, prefix) *)
(* after a run has ended.  Every external call (API page request, S3       *)
(* head_object / put_object / upload_fileobj, asset download) is one step  *)
(* whose outcome (success or failure) the environment chooses.             *)
(*                                                                         *)
(* Strings that take part in key construction are sequences of one-char    *)
(* strings, so that prefix normalisation and concatenation are computed    *)
(* as the code computes them.                                              *)
(***************************************************************************)
EXTENDS Integers, Sequences, FiniteSets, TLC

\* ------------------------------------------------------------------ bounds
\* Largest number of records the query returns.
MaxRecs == 3
\* Largest --start-page the operator passes.
MaxStart == 3

\* ------------------------------------------------------ strings and records
Slash == "/"
DotJson == <<".", "j", "s", "o", "n">>
IdChars == <<"1", "2", "3", "4", "5">>
NameChars == <<"a", "b", "c", "d", "e">>
Empty == <<>>

\* The shapes of record the API may return: with id, file and file-name;
\* without file/file-name; without id.
Kinds == {"full", "nofile", "noid"}

\* The i-th record of the query result, of the given shape.  A missing key
\* and an empty string are both falsy in the code (`not x`, `assert x`), and
\* both are the empty sequence here.
MkRecord(i, kind) ==
    [id      |-> IF kind = "noid" THEN Empty ELSE <<IdChars[i]>>,
     file    |-> IF kind = "nofile" THEN Empty ELSE <<Slash, Slash, "h", Slash, NameChars[i]>>,
     fname   |-> IF kind = "nofile" THEN Empty ELSE <<NameChars[i], ".", "m">>]

\* The prefixes the operator may pass as --prefix.
RawPrefixes == {Empty, <<"p">>, <<"p", Slash>>}

\* str.endswith('/')
EndsWithSlash(p) == Len(p) > 0 /\ p[Len(p)] = Slash

\* main(): the prefix is given a trailing separator unless it is empty.
NormalizePrefixRaw(p) == p
NormalizePrefix(p) ==
    IF ~EndsWithSlash(p) /\ p # Empty THEN p \o <<Slash>>
    ELSE IF p = Empty THEN Empty
    ELSE p

\* json_s3_key = f"{prefix}{recording_id}.json"
JsonKey(pfx, id) == pfx \o id \o DotJson

\* audio_s3_key, with the separator inserted when the prefix lacks it.
AudioKey(pfx, fname) ==
    IF ~EndsWithSlash(pfx) /\ pfx # Empty THEN pfx \o <<Slash>> \o fname
    ELSE IF pfx = Empty THEN fname
    ELSE pfx \o fname

\* ------------------------------------------------------------ the metadata API
\* The API pages the query result with a fixed page size; the last page may
\* be short.
Min(a, b) == IF a < b THEN a ELSE b
Max(a, b) == IF a > b THEN a ELSE b

NumPagesOf(rs, per) == (Len(rs) + per - 1) \div per

PageRecords(rs, per, p) ==
    IF p < 1 \/ (p - 1) * per >= Len(rs) THEN <<>>
    ELSE SubSeq(rs, (p - 1) * per + 1, Min(p * per, Len(rs)))

\* The decoded payload of GET ?query=..&page=p.  An error payload carries the
\* error object and nothing else.
Payload(rs, per, err, p) ==
    IF err = p
    THEN [error |-> TRUE, numPages |-> 0, numRecordings |-> 0, recordings |-> <<>>]
    ELSE [error |-> FALSE, numPages |-> NumPagesOf(rs, per),
          numRecordings |-> Len(rs), recordings |-> PageRecords(rs, per, p)]

\* data.get("numPages", 1), data.get("numRecordings", "0"), data.get("recordings", [])
GetNumPages(d) == IF d.error THEN 1 ELSE d.numPages
GetNumRecordings(d) == IF d.error THEN 0 ELSE d.numRecordings
GetRecordings(d) == IF d.error THEN <<>> ELSE d.recordings

\* ------------------------------------------------------------ the object store
\* head_object on a key: "ok" when the object is there and the call goes
\* through, "notfound" when it is not there, "error" for any other storage
\* error (which can strike whether or not the object is there).
HeadOutcomes(st, key) == IF key \in st THEN {"ok", "error"} ELSE {"notfound", "error"}

\* check_s3_file_exists: True iff head_object returned, False on any exception.
CheckAlwaysFalse(head) == FALSE
CheckNotFoundOnly(head) == head # "notfound"
check_s3_file_exists(head) == head = "ok"

\* put_object / upload_fileobj succeeded: the object is at the key.
PutObject(st, key) == st \cup {key}

\* ------------------------------------------------------------ progress bar
\* The total the progress bar is created with: the reported record count n,
\* less (start_page - 1) * recordings_per_page when resuming, clamped at zero.
ProgressTotalUnclamped(n, sp, per) == IF sp > 1 THEN n - (sp - 1) * per ELSE n
ProgressTotal(n, sp, per) == IF sp > 1 THEN Max(0, n - (sp - 1) * per) ELSE n

NoBar == [made |-> FALSE, total |-> 0, n |-> 0, closed |-> FALSE]

\* tqdm(total=t)
NewBar(t) == [made |-> TRUE, total |-> t, n |-> 0, closed |-> FALSE]

\* `if pbar:` -- None is falsy, and a tqdm bar's truth value is total > 0
\* (tqdm.__bool__ when total is set).
Truthy(bar) == bar.made /\ bar.total > 0

\* pbar.update(1) behind `if pbar:`
UpdateBarForgotten(bar) == bar
UpdateBar(bar) == IF Truthy(bar) THEN [bar EXCEPT !.n = bar.n + 1] ELSE bar

\* `if not json_exists:` -- the metadata upload is needed.
AlwaysUploadJson(je) == TRUE
UploadJsonNeeded(je) == ~je

\* No record was left with metadata only.
NoPartial == [id |-> Empty, probed |-> FALSE]

NoSummary == [made |-> FALSE, completed |-> 0, total |-> 0]
\* Nothing called yet in this run: the first request, loop page requests, error
\* payloads received, head_object, put_object, upload_fileobj, asset downloads,
\* rate-limiter waits.
NoCalls == [first |-> 0, fetch |-> 0, apierr |-> 0, probe |-> 0, put |-> 0,
            stream |-> 0, download |-> 0, wait |-> 0]
\* Nothing done yet in this record sync: put is "no", "ok" or "failed".
NoSync == [put |-> "no", dl |-> FALSE, stream |-> FALSE,
           jsonHead |-> "none", audioHead |-> "none"]

VARIABLES
    recs,          \* the query result held by the API, in API order
    perPage,       \* the API's page size
    errPage,       \* the page the API answers with an error payload (0: none)
    rawPrefix,     \* --prefix as given
    store,         \* the keys of the objects in the bucket
    pc,            \* position of the process
    start_page, prefix,
    current_page, total_pages, num_recordings_total_str, num_recordings_total,
    processed_recordings_count, recording_pbar,
    recordings, idx,           \* the page being walked and the position in it
    json_s3_key, audio_s3_key, json_exists, audio_exists,
    response,      \* the asset download response: "none", "open", "closed"
    exc,           \* the exception propagating out of the run ("none": none)
    summary,       \* the final "Processed n of m" line
    waited,        \* a rate-limiter wait happened and no request since
    calls,         \* external calls issued in this run, by kind
    sync,          \* what the current record sync has done
    idem,          \* this run repeats a run that completed, and no probe erred
    partialNow, partialPrev  \* the record an aborted run left with metadata only

vars == <<recs, perPage, errPage, rawPrefix, store, pc, start_page, prefix,
          current_page, total_pages, num_recordings_total_str, num_recordings_total,
          processed_recordings_count, recording_pbar, recordings, idx,
          json_s3_key, audio_s3_key, json_exists, audio_exists, response, exc,
          summary, waited, calls, sync, idem, partialNow, partialPrev>>

env == <<recs, perPage, errPage, rawPrefix>>
syncLocals == <<json_s3_key, audio_s3_key, json_exists, audio_exists>>
runLocals == <<start_page, prefix, current_page, total_pages,
               num_recordings_total_str, num_recordings_total>>

\* All sequences of record shapes of length n.
RECURSIVE KindSeqs(_)
KindSeqs(n) ==
    IF n = 0 THEN {<<>>}
    ELSE {Append(s, k) : s \in KindSeqs(n - 1), k \in Kinds}

\* The records of the given shapes, the i-th one with the i-th id and name.
RECURSIVE MkRecords(_)
MkRecords(ks) ==
    IF ks = <<>> THEN <<>>
    ELSE Append(MkRecords(SubSeq(ks, 1, Len(ks) - 1)), MkRecord(Len(ks), ks[Len(ks)]))

\* The query results the API may hold.
Catalogs == UNION {{MkRecords(ks) : ks \in KindSeqs(n)} : n \in 0..MaxRecs}

Init ==
    /\ recs \in Catalogs
    /\ perPage \in 1..Max(1, Len(recs))
    /\ errPage \in 0..NumPagesOf(recs, perPage)
    /\ rawPrefix \in RawPrefixes
    /\ store = {}
    /\ pc = "main"
    /\ start_page = 1
    /\ prefix = Empty
    /\ current_page = 1
    /\ total_pages = 1
    /\ num_recordings_total_str = 0
    /\ num_recordings_total = 0
    /\ processed_recordings_count = 0
    /\ recording_pbar = NoBar
    /\ recordings = <<>>
    /\ idx = 0
    /\ json_s3_key = Empty
    /\ audio_s3_key = Empty
    /\ json_exists = FALSE
    /\ audio_exists = FALSE
    /\ response = "none"
    /\ exc = "none"
    /\ summary = NoSummary
    /\ waited = FALSE
    /\ calls = NoCalls
    /\ sync = NoSync
    /\ idem = FALSE
    /\ partialNow = NoPartial
    /\ partialPrev = NoPartial

\* The record being synced.
recording == recordings[idx]

Bump(c, f) == [c EXCEPT ![f] = @ + 1]

\* ------------------------------------------------------------------ main()
\* main() normalises the prefix and, the S3 client check having passed, calls
\* fetch_and_process_pages, whose locals are initialised.  The command may be
\* run again once a run has ended.
Main ==
    /\ pc \in {"main", "exit"}
    /\ \E sp \in 1..MaxStart :
         /\ start_page' = sp
         /\ current_page' = sp
         /\ idem' = (pc = "exit" /\ exc = "none" /\ start_page = sp)
    /\ prefix' = NormalizePrefix(rawPrefix)
    /\ total_pages' = 1
    /\ num_recordings_total_str' = 0
    /\ num_recordings_total' = 0
    /\ processed_recordings_count' = 0
    /\ recording_pbar' = NoBar
    /\ recordings' = <<>>
    /\ idx' = 0
    /\ json_s3_key' = Empty
    /\ audio_s3_key' = Empty
    /\ json_exists' = FALSE
    /\ audio_exists' = FALSE
    /\ response' = "none"
    /\ exc' = "none"
    /\ summary' = NoSummary
    /\ waited' = FALSE
    /\ calls' = NoCalls
    /\ sync' = NoSync
    /\ partialPrev' = partialNow
    /\ partialNow' = NoPartial
    /\ pc' = "first_fetch"
    /\ UNCHANGED <<env, store>>

\* ------------------------------------------------ fetch_and_process_pages
\* The first request (page 1) fails in transport or in decoding.
FirstFetchFail ==
    /\ pc = "first_fetch"
    /\ \E e \in {"RequestException", "JSONDecodeError"} : exc' = e
    /\ calls' = Bump(calls, "first")
    /\ waited' = FALSE
    /\ pc' = "finally"
    /\ UNCHANGED <<env, store, runLocals, processed_recordings_count, recording_pbar,
                   recordings, idx, syncLocals, response, summary, sync, idem,
                   partialNow, partialPrev>>

\* The first request returns a payload: the totals are taken from it, a zero
\* total returns, otherwise the progress bar is created.
FirstFetchOkNoZeroExit ==
    /\ pc = "first_fetch"
    /\ LET data == Payload(recs, perPage, errPage, 1)
           n == GetNumRecordings(data)
           total == ProgressTotal(n, start_page, Len(GetRecordings(data)))
       IN /\ total_pages' = GetNumPages(data)
          /\ num_recordings_total_str' = n
          /\ num_recordings_total' = total
          /\ recording_pbar' = NewBar(total)
          /\ pc' = "while"
          /\ calls' = [calls EXCEPT !.first = @ + 1,
                                    !.apierr = IF data.error THEN @ + 1 ELSE @]
    /\ waited' = FALSE
    /\ UNCHANGED <<env, store, start_page, prefix, current_page,
                   processed_recordings_count, recordings, idx, syncLocals, response,
                   exc, summary, sync, idem, partialNow, partialPrev>>
FirstFetchOk ==
    /\ pc = "first_fetch"
    /\ LET data == Payload(recs, perPage, errPage, 1)
           n == GetNumRecordings(data)
           total == ProgressTotal(n, start_page, Len(GetRecordings(data)))
       IN /\ total_pages' = GetNumPages(data)
          /\ num_recordings_total_str' = n
          /\ IF n = 0
             THEN /\ num_recordings_total' = 0
                  /\ recording_pbar' = recording_pbar
                  /\ pc' = "finally"
             ELSE /\ num_recordings_total' = total
                  /\ recording_pbar' = NewBar(total)
                  /\ pc' = "while"
          /\ calls' = [calls EXCEPT !.first = @ + 1,
                                    !.apierr = IF data.error THEN @ + 1 ELSE @]
    /\ waited' = FALSE
    /\ UNCHANGED <<env, store, start_page, prefix, current_page,
                   processed_recordings_count, recordings, idx, syncLocals, response,
                   exc, summary, sync, idem, partialNow, partialPrev>>

\* while current_page <= total_pages: ... time.sleep(REQUEST_DELAY_SECONDS)
PageSleepOneMore ==
    /\ pc = "while"
    /\ current_page <= total_pages + 1
    /\ waited' = TRUE
    /\ calls' = Bump(calls, "wait")
    /\ pc' = "page_get"
    /\ UNCHANGED <<env, store, runLocals, processed_recordings_count, recording_pbar,
                   recordings, idx, syncLocals, response, exc, summary, sync, idem,
                   partialNow, partialPrev>>
PageSleep ==
    /\ pc = "while"
    /\ current_page <= total_pages
    /\ waited' = TRUE
    /\ calls' = Bump(calls, "wait")
    /\ pc' = "page_get"
    /\ UNCHANGED <<env, store, runLocals, processed_recordings_count, recording_pbar,
                   recordings, idx, syncLocals, response, exc, summary, sync, idem,
                   partialNow, partialPrev>>

\* The loop condition fails: control reaches the finally block.
WhileExit ==
    /\ pc = "while"
    /\ current_page > total_pages
    /\ pc' = "finally"
    /\ UNCHANGED <<env, store, runLocals, processed_recordings_count, recording_pbar,
                   recordings, idx, syncLocals, response, exc, summary, waited, calls,
                   sync, idem, partialNow, partialPrev>>

\* The page request fails in transport or in decoding.
PageGetFail ==
    /\ pc = "page_get"
    /\ \E e \in {"RequestException", "JSONDecodeError"} : exc' = e
    /\ calls' = Bump(calls, "fetch")
    /\ waited' = FALSE
    /\ pc' = "finally"
    /\ UNCHANGED <<env, store, runLocals, processed_recordings_count, recording_pbar,
                   recordings, idx, syncLocals, response, summary, sync, idem,
                   partialNow, partialPrev>>

\* The page request returns a payload: an embedded error raises ValueError,
\* otherwise the for loop over its recordings starts.
PageGetOk ==
    /\ pc = "page_get"
    /\ LET data == Payload(recs, perPage, errPage, current_page)
       IN /\ IF data.error
             THEN /\ exc' = "ValueError"
                  /\ pc' = "finally"
                  /\ UNCHANGED <<recordings, idx>>
             ELSE /\ recordings' = GetRecordings(data)
                  /\ idx' = 1
                  /\ pc' = "for"
                  /\ exc' = exc
          /\ calls' = [calls EXCEPT !.fetch = @ + 1,
                                    !.apierr = IF data.error THEN @ + 1 ELSE @]
    /\ waited' = FALSE
    /\ UNCHANGED <<env, store, runLocals, processed_recordings_count, recording_pbar,
                   syncLocals, response, summary, sync, idem, partialNow, partialPrev>>

\* for recording in recordings: the next record is handed to
\* download_and_upload_recording.
ForNext ==
    /\ pc = "for"
    /\ idx <= Len(recordings)
    /\ sync' = NoSync
    /\ pc' = "sync"
    /\ UNCHANGED <<env, store, runLocals, processed_recordings_count, recording_pbar,
                   recordings, idx, syncLocals, response, exc, summary, waited, calls,
                   idem, partialNow, partialPrev>>

\* The page is exhausted: current_page += 1.
ForExitSkipsPage ==
    /\ pc = "for"
    /\ idx > Len(recordings)
    /\ current_page' = current_page + 2
    /\ recordings' = <<>>
    /\ idx' = 0
    /\ pc' = "while"
    /\ UNCHANGED <<env, store, start_page, prefix, total_pages, num_recordings_total_str,
                   num_recordings_total, processed_recordings_count, recording_pbar,
                   syncLocals, response, exc, summary, waited, calls, sync, idem,
                   partialNow, partialPrev>>
ForExit ==
    /\ pc = "for"
    /\ idx > Len(recordings)
    /\ current_page' = current_page + 1
    /\ recordings' = <<>>
    /\ idx' = 0
    /\ pc' = "while"
    /\ UNCHANGED <<env, store, start_page, prefix, total_pages, num_recordings_total_str,
                   num_recordings_total, processed_recordings_count, recording_pbar,
                   syncLocals, response, exc, summary, waited, calls, sync, idem,
                   partialNow, partialPrev>>

\* download_and_upload_recording returned: processed_recordings_count += 1.
CountRecord ==
    /\ pc = "sync_ret"
    /\ processed_recordings_count' = processed_recordings_count + 1
    /\ idx' = idx + 1
    /\ json_s3_key' = Empty
    /\ audio_s3_key' = Empty
    /\ json_exists' = FALSE
    /\ audio_exists' = FALSE
    /\ response' = "none"
    /\ sync' = NoSync
    /\ pc' = "for"
    /\ UNCHANGED <<env, store, runLocals, recording_pbar, recordings, exc, summary,
                   waited, calls, idem, partialNow, partialPrev>>

\* finally: a truthy progress bar is set to the processed count, closed, and
\* the summary is printed; then the function is left (returning or raising).
FinallyNoReconcile ==
    /\ pc = "finally"
    /\ IF Truthy(recording_pbar)
       THEN /\ recording_pbar' = [recording_pbar EXCEPT !.closed = TRUE]
            /\ summary' = [made |-> TRUE, completed |-> recording_pbar.n,
                           total |-> num_recordings_total_str]
       ELSE UNCHANGED <<recording_pbar, summary>>
    /\ pc' = "exit"
    /\ UNCHANGED <<env, store, runLocals, processed_recordings_count, recordings, idx,
                   syncLocals, response, exc, waited, calls, sync, idem,
                   partialNow, partialPrev>>
FinallySwallows ==
    /\ pc = "finally"
    /\ IF Truthy(recording_pbar)
       THEN /\ recording_pbar' = [recording_pbar EXCEPT
                                     !.n = processed_recordings_count, !.closed = TRUE]
            /\ summary' = [made |-> TRUE, completed |-> processed_recordings_count,
                           total |-> num_recordings_total_str]
       ELSE UNCHANGED <<recording_pbar, summary>>
    /\ exc' = "none"
    /\ pc' = "exit"
    /\ UNCHANGED <<env, store, runLocals, processed_recordings_count, recordings, idx,
                   syncLocals, response, waited, calls, sync, idem,
                   partialNow, partialPrev>>
Finally ==
    /\ pc = "finally"
    /\ IF Truthy(recording_pbar)
       THEN /\ recording_pbar' = [recording_pbar EXCEPT
                                     !.n = processed_recordings_count, !.closed = TRUE]
            /\ summary' = [made |-> TRUE, completed |-> processed_recordings_count,
                           total |-> num_recordings_total_str]
       ELSE UNCHANGED <<recording_pbar, summary>>
    /\ pc' = "exit"
    /\ UNCHANGED <<env, store, runLocals, processed_recordings_count, recordings, idx,
                   syncLocals, response, exc, waited, calls, sync, idem,
                   partialNow, partialPrev>>

\* ------------------------------------------ download_and_upload_recording
\* assert recording_id fails: AssertionError leaves the function and the loop.
SyncInvalidSkips ==
    /\ pc = "sync"
    /\ recording.id = Empty
    /\ pc' = "sync_ret"
    /\ UNCHANGED <<env, store, runLocals, processed_recordings_count, recording_pbar,
                   recordings, idx, syncLocals, response, exc, summary, waited, calls,
                   sync, idem, partialNow, partialPrev>>
SyncInvalid ==
    /\ pc = "sync"
    /\ recording.id = Empty
    /\ exc' = "AssertionError"
    /\ pc' = "finally"
    /\ UNCHANGED <<env, store, runLocals, processed_recordings_count, recording_pbar,
                   recordings, idx, syncLocals, response, summary, waited, calls, sync,
                   idem, partialNow, partialPrev>>

\* `if not file_url_relative or not original_filename: return`, after the
\* metadata key was prepared.
SyncNoFile ==
    /\ pc = "sync"
    /\ recording.id # Empty
    /\ recording.file = Empty \/ recording.fname = Empty
    /\ json_s3_key' = JsonKey(prefix, recording.id)
    /\ pc' = "sync_ret"
    /\ UNCHANGED <<env, store, runLocals, processed_recordings_count, recording_pbar,
                   recordings, idx, audio_s3_key, json_exists, audio_exists, response,
                   exc, summary, waited, calls, sync, idem, partialNow, partialPrev>>

\* Both keys are computed and both are probed with check_s3_file_exists.
SyncProbe ==
    /\ pc = "sync"
    /\ recording.id # Empty
    /\ recording.file # Empty /\ recording.fname # Empty
    /\ LET jk == JsonKey(prefix, recording.id)
           ak == AudioKey(prefix, recording.fname)
       IN /\ json_s3_key' = jk
          /\ audio_s3_key' = ak
          /\ \E hj \in HeadOutcomes(store, jk), ha \in HeadOutcomes(store, ak) :
               /\ json_exists' = check_s3_file_exists(hj)
               /\ audio_exists' = check_s3_file_exists(ha)
               /\ sync' = [sync EXCEPT !.jsonHead = hj, !.audioHead = ha]
               /\ idem' = (idem /\ hj # "error" /\ ha # "error")
    /\ calls' = [calls EXCEPT !.probe = @ + 2]
    /\ pc' = "probed"
    /\ UNCHANGED <<env, store, runLocals, processed_recordings_count, recording_pbar,
                   recordings, idx, response, exc, summary, waited,
                   partialNow, partialPrev>>

\* `if json_exists and audio_exists:` -- skip, counting the record.
SyncSkip ==
    /\ pc = "probed"
    /\ json_exists /\ audio_exists
    /\ recording_pbar' = UpdateBar(recording_pbar)
    /\ pc' = "sync_ret"
    /\ UNCHANGED <<env, store, runLocals, processed_recordings_count, recordings, idx,
                   syncLocals, response, exc, summary, waited, calls, sync, idem,
                   partialNow, partialPrev>>

\* upload_to_s3 of the metadata succeeds.
PutJsonOk ==
    /\ pc = "probed"
    /\ ~(json_exists /\ audio_exists)
    /\ UploadJsonNeeded(json_exists)
    /\ store' = PutObject(store, json_s3_key)
    /\ calls' = Bump(calls, "put")
    /\ sync' = [sync EXCEPT !.put = "ok"]
    /\ pc' = "json_done"
    /\ UNCHANGED <<env, runLocals, processed_recordings_count, recording_pbar,
                   recordings, idx, syncLocals, response, exc, summary, waited, idem,
                   partialNow, partialPrev>>

\* upload_to_s3 of the metadata fails: the error is logged and re-raised.
PutJsonFail ==
    /\ pc = "probed"
    /\ ~(json_exists /\ audio_exists)
    /\ UploadJsonNeeded(json_exists)
    /\ calls' = Bump(calls, "put")
    /\ sync' = [sync EXCEPT !.put = "failed"]
    /\ exc' = "S3Error"
    /\ pc' = "finally"
    /\ UNCHANGED <<env, store, runLocals, processed_recordings_count, recording_pbar,
                   recordings, idx, syncLocals, response, summary, waited, idem,
                   partialNow, partialPrev>>

\* The metadata step is over (uploaded, or already there).
JsonStepOver ==
    \/ pc = "json_done"
    \/ pc = "probed" /\ ~(json_exists /\ audio_exists) /\ ~UploadJsonNeeded(json_exists)

\* `if not audio_exists:` is false: only the metadata was needed; pbar.update(1).
SyncJsonOnly ==
    /\ JsonStepOver
    /\ audio_exists
    /\ recording_pbar' = UpdateBar(recording_pbar)
    /\ pc' = "sync_ret"
    /\ UNCHANGED <<env, store, runLocals, processed_recordings_count, recordings, idx,
                   syncLocals, response, exc, summary, waited, calls, sync, idem,
                   partialNow, partialPrev>>

\* `if not audio_exists:` -- the URL is resolved, then
\* time.sleep(REQUEST_DELAY_SECONDS) before the download request.
AudioSleep ==
    /\ JsonStepOver
    /\ ~audio_exists
    /\ waited' = TRUE
    /\ calls' = Bump(calls, "wait")
    /\ pc' = "download"
    /\ UNCHANGED <<env, store, runLocals, processed_recordings_count, recording_pbar,
                   recordings, idx, syncLocals, response, exc, summary, sync, idem,
                   partialNow, partialPrev>>

\* The record the failing sync leaves behind after uploading its metadata and
\* failing on its asset (probed: the asset probe of that sync met no storage
\* error, so the asset is indeed absent).
LeftPartial ==
    IF sync.put = "ok"
    THEN [id |-> recording.id, probed |-> sync.audioHead # "error"]
    ELSE NoPartial

\* requests.get raises (timeout, connection error): no response was obtained.
DownloadFail ==
    /\ pc = "download"
    /\ calls' = Bump(calls, "download")
    /\ sync' = [sync EXCEPT !.dl = TRUE]
    /\ waited' = FALSE
    /\ exc' = "RequestException"
    /\ partialNow' = LeftPartial
    /\ pc' = "finally"
    /\ UNCHANGED <<env, store, runLocals, processed_recordings_count, recording_pbar,
                   recordings, idx, syncLocals, response, summary, idem, partialPrev>>

\* requests.get returns a non-2xx response and raise_for_status raises
\* HTTPError, which is logged and re-raised; nothing closes the response.
DownloadBadStatus ==
    /\ pc = "download"
    /\ calls' = Bump(calls, "download")
    /\ sync' = [sync EXCEPT !.dl = TRUE]
    /\ waited' = FALSE
    /\ response' = "open"
    /\ exc' = "RequestException"
    /\ partialNow' = LeftPartial
    /\ pc' = "finally"
    /\ UNCHANGED <<env, store, runLocals, processed_recordings_count, recording_pbar,
                   recordings, idx, syncLocals, summary, idem, partialPrev>>

\* requests.get returns a 2xx response, left open for streaming.
DownloadOk ==
    /\ pc = "download"
    /\ calls' = Bump(calls, "download")
    /\ sync' = [sync EXCEPT !.dl = TRUE]
    /\ waited' = FALSE
    /\ response' = "open"
    /\ pc' = "upload_audio"
    /\ UNCHANGED <<env, store, runLocals, processed_recordings_count, recording_pbar,
                   recordings, idx, syncLocals, exc, summary, idem,
                   partialNow, partialPrev>>

\* upload_fileobj succeeds; finally: response.close(); then pbar.update(1).
UploadAudioOk ==
    /\ pc = "upload_audio"
    /\ store' = PutObject(store, audio_s3_key)
    /\ calls' = Bump(calls, "stream")
    /\ sync' = [sync EXCEPT !.stream = TRUE]
    /\ response' = "closed"
    /\ recording_pbar' = UpdateBar(recording_pbar)
    /\ pc' = "sync_ret"
    /\ UNCHANGED <<env, runLocals, processed_recordings_count, recordings, idx,
                   syncLocals, exc, summary, waited, idem, partialNow, partialPrev>>

\* upload_fileobj fails: logged and re-raised; finally: response.close().
UploadAudioFail ==
    /\ pc = "upload_audio"
    /\ calls' = Bump(calls, "stream")
    /\ sync' = [sync EXCEPT !.stream = TRUE]
    /\ response' = "closed"
    /\ exc' = "S3Error"
    /\ partialNow' = LeftPartial
    /\ pc' = "finally"
    /\ UNCHANGED <<env, store, runLocals, processed_recordings_count, recording_pbar,
                   recordings, idx, syncLocals, summary, waited, idem, partialPrev>>

\* ------------------------------------------------------------ specification
Next ==
    \/ Main
    \/ FirstFetchFail
    \/ FirstFetchOk
    \/ PageSleep
    \/ WhileExit
    \/ PageGetFail
    \/ PageGetOk
    \/ ForNext
    \/ ForExit
    \/ SyncInvalid
    \/ SyncNoFile
    \/ SyncProbe
    \/ SyncSkip
    \/ PutJsonOk
    \/ PutJsonFail
    \/ SyncJsonOnly
    \/ AudioSleep
    \/ DownloadFail
    \/ DownloadBadStatus
    \/ DownloadOk
    \/ UploadAudioOk
    \/ UploadAudioFail
    \/ CountRecord
    \/ Finally

Spec == Init /\ [][Next]_vars

\* ------------------------------------------------------------------ claims
\* The metadata key and the asset key the record r is to be stored under.
KeyOfJson(r) == JsonKey(NormalizePrefix(rawPrefix), r.id)
KeyOfAudio(r) == AudioKey(NormalizePrefix(rawPrefix), r.fname)

\* A record is in hand: one is being synced, or the run stopped inside its sync.
RecordInHand == idx \in 1..Len(recordings)

\* C1 -- Idempotence: in a run that repeats (same start page, same API pages,
\* same bucket and prefix) a run that completed without failure, and in which
\* no existence probe met a storage error, no put_object, no upload_fileobj
\* and no asset download is issued.
Thm_C1 ==
    idem => (calls.put = 0 /\ calls.stream = 0 /\ calls.download = 0)

\* A repeated run that walked two pages, probed the records and found them has
\* returned normally.
Wit_C1 ==
    /\ idem
    /\ pc = "exit"
    /\ exc = "none"
    /\ calls.fetch >= 2
    /\ calls.probe >= 4
    /\ processed_recordings_count >= 2

\* The sync in hand is that of the record the previous run left partial: its
\* metadata upload succeeded and its asset download or upload then failed.
SyncOfPartial ==
    partialPrev.id # Empty /\ RecordInHand /\ recording.id = partialPrev.id

\* C2 as stated -- Partial-record resilience: the next run's sync of the
\* partial record never uploads the metadata again, reaches the asset
\* download, and when it returns both objects exist.
Orig_C2 ==
    SyncOfPartial =>
        /\ sync.put = "no"
        /\ pc = "probed" => ~audio_exists
        /\ pc = "sync_ret" =>
              /\ sync.dl /\ sync.stream
              /\ KeyOfJson(recording) \in store
              /\ KeyOfAudio(recording) \in store

\* C2 as amended: the same, provided the probes of the record's keys met no
\* storage error: the asset probe in the aborted run (so the asset is indeed
\* missing) and the metadata probe in the next run (so the metadata is found).
Thm_C2 ==
    (SyncOfPartial /\ partialPrev.probed) =>
        /\ sync.jsonHead # "error" => sync.put = "no"
        /\ pc = "probed" => ~audio_exists
        /\ pc = "probed" /\ sync.jsonHead # "error" => json_exists
        /\ pc = "sync_ret" =>
              /\ sync.dl /\ sync.stream
              /\ KeyOfJson(recording) \in store
              /\ KeyOfAudio(recording) \in store

\* The next run's sync of the partial record has returned, having found the
\* metadata, uploaded none, and downloaded and uploaded the asset.
Wit_C2 ==
    /\ SyncOfPartial
    /\ partialPrev.probed
    /\ pc = "sync_ret"
    /\ sync.jsonHead = "ok"
    /\ sync.put = "no"
    /\ sync.dl /\ sync.stream

\* C3 -- Metadata for every record: when the sync of a record returns, its
\* metadata object is in the store; and a completed run over one page of 3
\* records leaves the 3 metadata objects in the store.
Cex_C3 ==
    /\ pc = "sync_ret" => KeyOfJson(recording) \in store
    /\ (pc = "exit" /\ exc = "none" /\ start_page = 1 /\ errPage = 0
          /\ Len(recs) = 3 /\ perPage = 3)
         => Cardinality({i \in 1..3 : KeyOfJson(recs[i]) \in store}) = 3

\* C4 -- Embedded API error: a run in which the API answered a request with
\* an error payload ends raising the API error, and when that was the first
\* request of the run no upload was attempted.
Cex_C4 ==
    (pc = "exit" /\ calls.apierr > 0) =>
        /\ exc = "ValueError"
        /\ calls.fetch = 0 => (calls.put = 0 /\ calls.stream = 0)

\* C5 -- Guaranteed finalization: when control has left the function the
\* tracker was finalized and the summary line was printed.
Cex_C5 ==
    pc = "exit" => (recording_pbar.closed /\ summary.made)

\* C6 -- Exactly-once progress: when the sync of a record has returned, the
\* tracker stands at the number of records handled, this one included.
Cex_C6 ==
    pc = "sync_ret" => recording_pbar.n = processed_recordings_count + 1

\* A step issues a request to the metadata API or to the asset source.
FirstRequest == calls'.first = calls.first + 1
LoopRequest == calls'.fetch = calls.fetch + 1
AssetRequest == calls'.download = calls.download + 1

\* So far in this run every loop page request and asset download had its own
\* wait, and one more wait is pending.
OneWaitEach == calls.wait = calls.fetch + calls.download + 1

\* C7 -- Rate limiting: every request of the run (the first fetch that
\* establishes the totals, each loop page fetch, each asset download) is
\* issued right after a rate-limiter wait, with no other request in between.
Cex_C7 ==
    [][(FirstRequest \/ LoopRequest \/ AssetRequest) => waited]_vars

\* What does hold of the waits: each page request of the loop and each asset
\* download is issued right after one wait of its own, and the first fetch of
\* a run is issued without one.
WaitsOfLoopAndAsset ==
    [][/\ (LoopRequest \/ AssetRequest) => (waited /\ OneWaitEach)
       /\ FirstRequest => ~waited]_vars

\* C8 -- Scoped response: outside the streaming upload no download response
\* is open.
Cex_C8 ==
    pc # "upload_audio" => response # "open"

\* The prefix as given, without its trailing separator.
StripSlash(p) == IF EndsWithSlash(p) THEN SubSeq(p, 1, Len(p) - 1) ELSE p

\* The key of a name under the prefix as given: the bare name for the empty
\* prefix, else prefix, one separator, name.
KeyUnder(p, name) == IF p = Empty THEN name ELSE StripSlash(p) \o <<Slash>> \o name

\* C9 -- Key determinism: the keys computed for a record are a function of
\* the prefix without its trailing separator, the id and the file name:
\* prefix, one separator, id+".json" or file name; bare for the empty prefix.
Thm_C9 ==
    /\ json_s3_key # Empty =>
          (RecordInHand /\ json_s3_key = KeyUnder(rawPrefix, recording.id \o DotJson))
    /\ audio_s3_key # Empty =>
          (RecordInHand /\ audio_s3_key = KeyUnder(rawPrefix, recording.fname))

\* Keys were computed under a prefix given without the separator.
Wit_C9 ==
    /\ pc = "probed"
    /\ rawPrefix = <<"p">>
    /\ json_s3_key = <<"p", Slash, "1">> \o DotJson
    /\ audio_s3_key = <<"p", Slash, "a", ".", "m">>

\* C10 -- Empty page range: after a first fetch that found records, a start
\* page beyond the last page means no page request by the loop, no probe,
\* download or upload, and a tracker created and finalized at 0 completed.
Cex_C10 ==
    (pc = "exit" /\ num_recordings_total_str > 0 /\ start_page > total_pages) =>
        /\ calls.fetch = 0 /\ calls.probe = 0
        /\ calls.put = 0 /\ calls.stream = 0 /\ calls.download = 0
        /\ recording_pbar.made /\ recording_pbar.closed /\ recording_pbar.n = 0
        /\ summary.made /\ summary.completed = 0

\* The first fetch of this run reported a total record count of 0 and the run
\* is on its way out.
ZeroResult ==
    /\ pc = "finally"
    /\ calls.first = 1
    /\ exc = "none"
    /\ num_recordings_total_str = 0

\* C11 -- Zero-result short circuit: a first fetch that reports 0 records
\* takes the run straight to the finally block, and from there the function is
\* left returning normally, with no further external call of any kind and the
\* store unchanged.
Thm_C11 ==
    [][/\ (pc = "first_fetch" /\ pc' # "first_fetch" /\ exc' = "none"
             /\ num_recordings_total_str' = 0)
          => (pc' = "finally" /\ store' = store
                /\ calls' = [calls EXCEPT !.first = @ + 1, !.apierr = calls'.apierr])
       /\ ZeroResult
          => (pc' = "exit" /\ exc' = "none" /\ store' = store /\ calls' = calls)]_vars

\* A run over an empty query result has returned after the first fetch alone.
Wit_C11 ==
    /\ pc = "exit"
    /\ exc = "none"
    /\ Len(recs) = 0
    /\ calls = [NoCalls EXCEPT !.first = 1]
    /\ store = {}

\* C12 -- Abort without retry: once a failure is raised in a run no further
\* external call is issued and the store is not touched; the next step leaves
\* the function with that failure propagating.
Thm_C12 ==
    [][(exc # "none" /\ pc # "exit")
          => (pc = "finally" /\ pc' = "exit" /\ exc' = exc
                /\ calls' = calls /\ store' = store
                /\ idx' = idx /\ current_page' = current_page
                /\ processed_recordings_count' = processed_recordings_count)]_vars

\* A run was aborted by a storage failure with a record of the page and a
\* later page still untouched.
Wit_C12 ==
    /\ pc = "exit"
    /\ exc = "S3Error"
    /\ RecordInHand
    /\ idx < Len(recordings)
    /\ current_page < total_pages

\* The record in hand has been probed.
Probed == RecordInHand /\ sync.jsonHead # "none" /\ sync.audioHead # "none"

\* C13 -- Probe errors mean absent: a probe answers true only when head_object
\* went through (so the object is there), any error answers false without
\* failing the sync, and when the sync returns an upload was skipped only for a
\* key whose probe went through.
Thm_C13 ==
    Probed =>
        /\ json_exists = (sync.jsonHead = "ok")
        /\ audio_exists = (sync.audioHead = "ok")
        /\ json_exists => json_s3_key \in store
        /\ audio_exists => audio_s3_key \in store
        /\ pc = "probed" => exc = "none"
        /\ pc = "sync_ret" =>
              /\ sync.put = "no" => sync.jsonHead = "ok"
              /\ ~sync.stream => sync.audioHead = "ok"

\* A sync has returned after both probes of objects that were there met a
\* storage error: both were uploaded again.
Wit_C13 ==
    /\ Probed
    /\ pc = "sync_ret"
    /\ sync.jsonHead = "error" /\ sync.audioHead = "error"
    /\ sync.put = "ok" /\ sync.stream

\* The number of records on the pages from the start page up to, not
\* including, page p.
RecordsBefore(p) ==
    Max(0, Min(Len(recs), (p - 1) * perPage) - Min(Len(recs), (start_page - 1) * perPage))

\* The number of record syncs that have returned in this run, by the position
\* of the walk.
SyncsReturned == RecordsBefore(current_page) + (IF idx >= 1 THEN idx - 1 ELSE 0)

\* The page loop is running.
InLoop == pc \in {"while", "page_get", "for", "sync", "probed", "json_done",
                  "download", "upload_audio", "sync_ret"}

\* C14 -- Page-walk order: the k-th request of the page loop is for page
\* start_page + k - 1, none beyond total_pages; the records in hand are that
\* page's records in API order, synced one after the other; and a page is
\* requested only when every record of the pages before it has been synced.
Thm_C14 ==
    InLoop =>
        /\ current_page = start_page + calls.fetch - (IF pc \in {"while", "page_get"} THEN 0 ELSE 1)
        /\ pc # "while" => current_page <= total_pages
        /\ pc \notin {"while", "page_get"} =>
              /\ recordings = PageRecords(recs, perPage, current_page)
              /\ idx \in 1..(Len(recordings) + 1)
        /\ processed_recordings_count = SyncsReturned
        /\ pc \in {"while", "page_get"} =>
              processed_recordings_count = RecordsBefore(current_page)

\* The second page is about to be requested, the two records of the page
\* before it having been synced.
Wit_C14 ==
    /\ pc = "page_get"
    /\ calls.fetch = 1
    /\ current_page = start_page + 1
    /\ perPage = 2
    /\ processed_recordings_count = 2

\* C15 -- Pages are never re-fetched: in a run page 1 is requested at most
\* once, counting the first fetch that learns the totals and the page loop's
\* own request when the start page is 1.
Cex_C15 ==
    calls.first + (IF start_page = 1 /\ calls.fetch >= 1 THEN 1 ELSE 0) <= 1

\* C16 -- Skip leaves everything unchanged: when both probes answered true the
\* sync returns normally in its next step, with no wait, no download, no
\* upload, the store unchanged, and the tracker advanced by one.
Thm_C16 ==
    [][(pc = "probed" /\ json_exists /\ audio_exists)
          => (pc' = "sync_ret" /\ exc' = "none"
                /\ store' = store /\ calls' = calls /\ waited' = waited
                /\ sync' = sync /\ response' = "none"
                /\ recording_pbar'.n = recording_pbar.n + 1)]_vars

\* A sync that found both objects has returned.
Wit_C16 ==
    /\ pc = "sync_ret"
    /\ sync = [NoSync EXCEPT !.jsonHead = "ok", !.audioHead = "ok"]
    /\ recording_pbar.n = processed_recordings_count + 1

\* C17 -- Invalid record: a record with a missing or empty id fails its sync
\* at once, with no probe, download or upload and without being counted; the
\* failure then leaves the function (see C12), the store keeping what earlier
\* records wrote.
Thm_C17 ==
    [][/\ (pc = "sync" /\ recording.id = Empty)
          => (pc' = "finally" /\ exc' = "AssertionError"
                /\ calls' = calls /\ store' = store /\ sync' = NoSync
                /\ recording_pbar' = recording_pbar
                /\ processed_recordings_count' = processed_recordings_count)
       /\ (exc = "AssertionError" /\ pc = "finally")
          => (pc' = "exit" /\ exc' = exc /\ calls' = calls /\ store' = store
                /\ idx' = idx /\ current_page' = current_page
                /\ processed_recordings_count' = SyncsReturned
                /\ (summary'.made => summary'.completed = SyncsReturned))]_vars

\* A run was aborted by a record without id, after an earlier record had been
\* written to the store and counted.
Wit_C17 ==
    /\ pc = "exit"
    /\ exc = "AssertionError"
    /\ RecordInHand /\ recording.id = Empty
    /\ processed_recordings_count >= 1
    /\ Cardinality(store) >= 2
    /\ summary.made /\ summary.completed = processed_recordings_count

\* C18 -- Reconciled final count: when the run has ended with the tracker
\* created, the tracker's count equals the number of records whose sync
\* returned in this run (the record whose sync failed not included), and so
\* does the completed number of the summary line where one is printed.
Thm_C18 ==
    (pc = "exit" /\ recording_pbar.made) =>
        /\ recording_pbar.n = SyncsReturned
        /\ processed_recordings_count = SyncsReturned
        /\ summary.made => summary.completed = SyncsReturned

\* A run was aborted in the second record after a first record without file,
\* which the tracker had not counted, and reported 1 completed.
Wit_C18 ==
    /\ pc = "exit"
    /\ exc # "none"
    /\ RecordInHand /\ idx = 2
    /\ recordings[1].file = Empty
    /\ recording_pbar.closed /\ recording_pbar.n = 1
    /\ summary.made /\ summary.completed = 1

\* C19 -- Resume total arithmetic: the tracker's total is the reported record
\* count for start page 1 and max(0, count - records on page 1 * (start page
\* - 1)) beyond, never negative; and a completed run has synced exactly the
\* records of the pages from the start page on, whatever the total.
Thm_C19 ==
    recording_pbar.made =>
        /\ recording_pbar.total =
              (IF start_page = 1 THEN Len(recs)
               ELSE Max(0, Len(recs) - Len(PageRecords(recs, perPage, 1)) * (start_page - 1)))
        /\ recording_pbar.total >= 0
        /\ num_recordings_total = recording_pbar.total
        /\ (pc = "exit" /\ exc = "none")
              => processed_recordings_count = RecordsBefore(total_pages + 1)

\* A resumed run whose estimate of the skipped records exceeds the record
\* count: the total was clamped to 0.
Wit_C19 ==
    /\ recording_pbar.made
    /\ start_page > 1
    /\ Len(recs) - perPage * (start_page - 1) < 0
    /\ recording_pbar.total = 0

\* The pages the loop has yet to finish, and the records of the page in hand
\* yet to be counted.
PagesLeft == Max(0, total_pages - current_page + 1)
RecsLeft == IF idx >= 1 THEN Len(recordings) - idx + 1 ELSE 0
PageWeight == 10 * MaxRecs + 11

\* A natural number that every step of a run decreases.
Measure ==
    CASE pc = "exit" -> 0
      [] pc = "finally" -> 1
      [] pc = "main" -> 0
      [] pc = "first_fetch" -> PageWeight * (MaxRecs + 2)
      [] pc = "while" -> PageWeight * PagesLeft + PageWeight - 1
      [] pc = "page_get" -> PageWeight * PagesLeft + PageWeight - 2
      [] pc = "for" -> PageWeight * PagesLeft + 10 * RecsLeft + 8
      [] pc = "sync" -> PageWeight * PagesLeft + 10 * RecsLeft + 7
      [] pc = "probed" -> PageWeight * PagesLeft + 10 * RecsLeft + 6
      [] pc = "json_done" -> PageWeight * PagesLeft + 10 * RecsLeft + 5
      [] pc = "download" -> PageWeight * PagesLeft + 10 * RecsLeft + 4
      [] pc = "upload_audio" -> PageWeight * PagesLeft + 10 * RecsLeft + 3
      [] pc = "sync_ret" -> PageWeight * PagesLeft + 10 * RecsLeft + 2

\* C20 -- Bounded walk and termination: the totals taken from the first fetch
\* are not changed afterwards; the page loop issues at most
\* max(0, total_pages - start_page + 1) requests; and the run terminates:
\* until the function is left a step is always possible, and every step
\* decreases a natural number.
Thm_C20 ==
    /\ [](/\ pc \notin {"main", "first_fetch"}
             => calls.fetch <= Max(0, total_pages - start_page + 1)
          /\ Measure >= 0
          /\ pc # "exit" => ENABLED Next)
    /\ [][/\ pc \notin {"main", "exit", "first_fetch"}
             => (total_pages' = total_pages
                   /\ num_recordings_total_str' = num_recordings_total_str)
          /\ pc \notin {"main", "exit"} => Measure' < Measure]_vars

\* A run over three pages has returned after three requests of the loop.
Wit_C20 ==
    /\ pc = "exit"
    /\ exc = "none"
    /\ start_page = 1
    /\ total_pages = 3
    /\ calls.fetch = 3

====
